---- MODULE Spec2Model ----
(***************************************************************************)
(* A model of the Substrate side of the relayer: the block Follower        *)
(* (listener.pollBlocks / processBlock), the coordination ledger           *)
(* (listener.msTxAsMulti) and the Submitter (writer.ResolveMessage /       *)
(* redeemTx / isFinish / getRound).                                        *)
(*                                                                         *)
(* Three specifications of the whole share the variables:                  *)
(*   Spec        one relayer process (any relayer index) against a chain   *)
(*               whose blocks are inputs: every block the Follower fetches *)
(*               may hold any multi-sig extrinsics;                        *)
(*   SystemSpec  the relayers of a deployment against one chain whose      *)
(*               blocks are made of the extrinsics the relayers submitted, *)
(*               judged by the multisig pallet;                            *)
(*   TurnSpec    the turn test alone, on inputs drawn from bounded sets.   *)
(* The steps of Spec and SystemSpec are the single ledger accesses, RPC    *)
(* rounds and sleeps of the goroutines, and a process ends when a call it  *)
(* panics on fails or when the runtime meets a concurrent map access; a    *)
(* process that ended has no memory left.                                  *)
(* FairSpec is Spec with the fairness the scheduler gives the goroutines.  *)
(*                                                                         *)
(* Further specifications look at one part each:                           *)
(*   FollowerSpec  one Follower with every RPC outcome, the deposits       *)
(*                 (UtilityBatch), the router, the block store and the     *)
(*                 stop channel; FairFollowerSpec adds its fairness;       *)
(*   PruneSpec     Spec on blocks whose extrinsics are numbered from 0;     *)
(*   NonceSpec     the deposit nonce alone, on bounded inputs;             *)
(*   ReplaySpec    the Follower's ledger updates run twice over the same   *)
(*                 blocks, each run with map iteration orders of its own.  *)
(***************************************************************************)
EXTENDS Integers, Sequences, FiniteSets, TLC

\* ------------------------------------------------------------------ bounds
\* Relayers of the deployment (relayer.totalRelayers).
TotalRelayers == 3
\* Heights startBlock..MaxHeight carry blocks the Follower can fetch.
MaxHeight == 2
\* Extrinsics of the multi-sig account in one block.
MaxExt == 1
\* Messages handed to ResolveMessage.
NumMsgs == 1
\* SystemSpec: the chain grows to height MaxChain, a block takes up to
\* MaxSysExt extrinsics of the multi-sig account, a task passes the turn test
\* while it has handed fewer than MaxSysSent extrinsics to the node, and the
\* Followers of up to MaxFollowing relayers have left startBlock.
MaxChain == 3
MaxSysExt == 2
MaxSysSent == 2
MaxFollowing == 1
\* TurnSpec: heights 0..MaxTurnHeight, totalRelayers 1..MaxTurnTotal.
MaxTurnHeight == 15
MaxTurnTotal == 4
\* FollowerSpec: heights startBlock..MaxFHeight carry blocks of up to MaxFExt
\* extrinsics.
MaxFHeight == 2
MaxFExt == 2
\* PruneSpec: heights startBlock..MaxPruneHeight carry blocks of up to
\* MaxPruneExt extrinsics.
MaxPruneHeight == 0
MaxPruneExt == 3
\* NonceSpec: block numbers and extrinsic indices up to here.
MaxNonceKey == 11
\* ReplaySpec: MaxReplay blocks of up to MaxReplayExt extrinsics.
MaxReplay == 2
MaxReplayExt == 2

\* ------------------------------------------------------- program constants
\* writer.go:27  const Mod = 1
Mod == 1
\* writer.go:77  retryTime := 5
RetryLimit == 5
\* writer.go:26  const oneToken = 1000000
oneToken == 1000000
\* part_000:50   FixedFee = 0 * DOT
FixedFee == 0
\* part_000:51   FeeRate = 0.001, kept as the divisor 1000 (amount * 0.001,
\* truncated by the uint64 conversion, on amounts the product is exact for).
FeeRateDiv == 1000
\* writer.go:138  threshold = w.relayer.multiSignThreshold (2 of 3 here).
Threshold == 2
\* part_000:106  currentBlock = l.startBlock
startBlock == 0

\* writer.go:29-32  NotExecuted = MultiSignTx{BlockNumber: -1, MultiSignTxId: 0}
NotExecuted == [BlockNumber |-> -1, MultiSignTxId |-> 0]

\* --------------------------------------------------- unsigned 64-bit words
\* A uint64 is four 16-bit limbs, least significant first.
Limb == 2^16

U64(x) == << x % Limb, (x \div Limb) % Limb, 0, 0 >>

\* a - b on uint64, wrapping: limb-wise subtraction with borrow.
U64Sub(a, b) ==
  LET d1 == a[1] - b[1]
      w1 == IF d1 < 0 THEN 1 ELSE 0
      d2 == a[2] - b[2] - w1
      w2 == IF d2 < 0 THEN 1 ELSE 0
      d3 == a[3] - b[3] - w2
      w3 == IF d3 < 0 THEN 1 ELSE 0
      d4 == a[4] - b[4] - w3
  IN  << d1 % Limb, d2 % Limb, d3 % Limb, d4 % Limb >>

\* a mod n for a uint64 a and a small n >= 1.
U64Mod(a, n) ==
  LET r4 == a[4] % n
      r3 == (r4 * Limb + a[3]) % n
      r2 == (r3 * Limb + a[2]) % n
  IN  (r2 * Limb + a[1]) % n

\* ------------------------------------------------------------ RoundScheduler
\* writer.getRound with the header of finalized height h: round = height mod
\* (totalRelayers * Mod), as a uint64.  Without a header (GetHeader failed)
\* getRound dereferences nil and the process ends: the action Panic.
getRound(h, n) == U64(h % (n * Mod))

\* The right-hand side of the turn test: currentRelayer*Mod - 1 on uint64.
TurnSlot(i) == U64Sub(U64(i * Mod), U64(1))

\* writer.redeemTx, the turn test: round.Uint64() == currentRelayer*Mod - 1.
IsMyTurn(h, i, n) == getRound(h, n) = TurnSlot(i)

\* ------------------------------------------------------------------- data
\* Relayer indices, relayer.currentRelayer, as the data model numbers them.
Relayers == 0 .. (TotalRelayers - 1)

\* The account of relayer r (relayer.kr.PublicKey) is named by r itself.
\* relayer.otherSignatories: the other relayers' accounts, sorted.
otherSignatories(r) ==
  [j \in 1 .. (TotalRelayers - 1) |-> IF j - 1 < r THEN j - 1 ELSE j]

Msgs == 1 .. NumMsgs

\* msg.Message: Payload[0] the amount, Payload[1] the recipient as "0x.." hex,
\* a string kept as the sequence of its characters.
Payload(m) ==
  [amount    |-> 1000 * oneToken,
   recipient |-> IF m % 2 = 1 THEN <<"0", "x", "a", "b">>
                              ELSE <<"0", "x", "c", "d">>]

\* writer.redeemTx: bigAmt = amount / oneToken; fee = uint64(FixedFee +
\* float64(bigAmt) * FeeRate); actualAmount = bigAmt - fee.
actualAmount(m) ==
  LET bigAmt == Payload(m).amount \div oneToken
      fee    == FixedFee + (bigAmt \div FeeRateDiv)
  IN  bigAmt - fee

\* writer.redeemTx: destAddress[2:], the recipient without its "0x".
destAddress(m) == SubSeq(Payload(m).recipient, 3, Len(Payload(m).recipient))

\* The (DestAddress, DestAmount) pairs multi-sig extrinsics may carry: the
\* transfers the messages ask for, to either recipient.
Calls ==
  { [DestAddress |-> d, DestAmount |-> actualAmount(m)] :
      d \in { <<"a", "b">>, <<"c", "d">> }, m \in Msgs }

ExtTypes == {"AsMultiNew", "AsMultiApprove", "AsMultiExecuted"}

\* models.ExtrinsicResponse of a multi-sig extrinsic signed by relayer s.
Extrinsic(type, idx, call, s) ==
  [Type             |-> type,
   ExtrinsicIndex   |-> idx,
   DestAddress      |-> call.DestAddress,
   DestAmount       |-> call.DestAmount,
   OtherSignatories |-> otherSignatories(s)]

\* The shapes one extrinsic can take before its index is known.
ExtShapes == ExtTypes \X Calls \X Relayers

\* client.GetBlockByNumber on an arbitrary block: up to MaxExt extrinsics of
\* the multi-sig account, in index order.
AnyBlocks ==
  UNION { { [j \in 1 .. k |-> Extrinsic(f[j][1], j, f[j][2], f[j][3])] :
              f \in [1 .. k -> ExtShapes] } : k \in 0 .. MaxExt }

\* -------------------------------------------------------- decimal strings
\* A string is kept as the sequence of its characters.
Digits == <<"0", "1", "2", "3", "4", "5", "6", "7", "8", "9">>

IsDigit(c) == \E d \in 1 .. 10 : Digits[d] = c

DigitVal(c) == (CHOOSE d \in 1 .. 10 : Digits[d] = c) - 1

\* The decimal numeral of a natural number, most significant digit first.
RECURSIVE FormatNat(_)
FormatNat(n) ==
  IF n < 10 THEN << Digits[n + 1] >>
  ELSE Append(FormatNat(n \div 10), Digits[(n % 10) + 1])

\* strconv.FormatInt(n, 10)
FormatInt(n) == IF n < 0 THEN <<"-">> \o FormatNat(-n) ELSE FormatNat(n)

\* The value of a sequence of digits.
RECURSIVE ParseNat(_)
ParseNat(s) ==
  IF s = << >> THEN 0
  ELSE ParseNat(SubSeq(s, 1, Len(s) - 1)) * 10 + DigitVal(s[Len(s)])

\* strconv.ParseInt(s, 10, 64): an optional sign, then one or more digits;
\* anything else is a syntax error with value 0.  The numerals of the model
\* stay far below 2^63, so the range error does not occur.
ParseInt(s) ==
  LET signed == s # << >> /\ s[1] \in {"+", "-"}
      body   == IF signed THEN Tail(s) ELSE s
  IN  IF body = << >> \/ \E i \in 1 .. Len(body) : ~IsDigit(body[i])
      THEN [err |-> TRUE, val |-> 0]
      ELSE [err |-> FALSE,
            val |-> IF signed /\ s[1] = "-" THEN -ParseNat(body)
                                              ELSE ParseNat(body)]

\* processBlock, UtilityBatch: depositNonce, the numerals of the block number
\* and of the extrinsic index written one after the other and parsed.
depositNonce(b, i) == ParseInt(FormatInt(b) \o FormatInt(i)).val

\* ----------------------------------------------------------------- ledger
\* MultiSignTx, the key of listener.msTxAsMulti.
MultiSignTx(b, i) == [BlockNumber |-> b, MultiSignTxId |-> i]

\* processBlock, AsMultiNew: the record stored under currentTx.  Threshold,
\* MaybeTimePoint, StoreCall and MaxWeight are copied from the extrinsic and
\* never read again; they are left out.
NewRecord(e, currentTx) ==
  [Executed    |-> FALSE,
   DestAddress |-> e.DestAddress,
   DestAmount  |-> e.DestAmount,
   Others      |-> << e.OtherSignatories >>,
   OriginMsTx  |-> currentTx]

\* l.msTxAsMulti[key] = rec
Store(L, key, rec) ==
  [k \in (DOMAIN L) \cup {key} |-> IF k = key THEN rec ELSE L[k]]

\* delete(w.listener.msTxAsMulti, key)
Delete(L, key) == [k \in (DOMAIN L) \ {key} |-> L[k]]

\* The test markVote and markExecution share.
Unexecuted(ms, e) ==
  /\ ~ms.Executed
  /\ ms.DestAddress = e.DestAddress
  /\ ms.DestAmount = e.DestAmount

\* listener.markVote: every un-executed record with the extrinsic's address
\* and amount gets the extrinsic's OtherSignatories appended to Others.
markVote(L, e) ==
  [k \in DOMAIN L |->
     IF Unexecuted(L[k], e)
     THEN [L[k] EXCEPT !.Others = Append(@, e.OtherSignatories)]
     ELSE L[k]]

\* listener.markExecution: every such record is marked executed.
markExecution(L, e) ==
  [k \in DOMAIN L |->
     IF Unexecuted(L[k], e) THEN [L[k] EXCEPT !.Executed = TRUE] ELSE L[k]]

\* A Follower that binds currentTx.BlockNumber once and never again: the key
\* of a new record then repeats from block to block.
processExtrinsicStaleKey(L, b, e) ==
  LET currentTx == MultiSignTx(startBlock, e.ExtrinsicIndex)
  IN  CASE e.Type = "AsMultiNew"      -> Store(L, currentTx, NewRecord(e, currentTx))
        [] e.Type = "AsMultiApprove"  -> markVote(L, e)
        [] e.Type = "AsMultiExecuted" -> markVote(L, e)
        [] OTHER                      -> L

\* listener.processBlock, the body of its loop for one extrinsic of block b
\* up to its first pass over the ledger: the store of a new record, or
\* markVote.  For an AsMultiExecuted a second pass, markExecution, follows.
processExtrinsic(L, b, e) ==
  LET currentTx == MultiSignTx(b, e.ExtrinsicIndex)
  IN  CASE e.Type = "AsMultiNew"      -> Store(L, currentTx, NewRecord(e, currentTx))
        [] e.Type = "AsMultiApprove"  -> markVote(L, e)
        [] e.Type = "AsMultiExecuted" -> markVote(L, e)
        [] OTHER                      -> L

\* The whole body of the loop for one extrinsic, both passes.
loopBody(L, b, e) ==
  IF e.Type = "AsMultiExecuted"
  THEN markExecution(processExtrinsic(L, b, e), e)
  ELSE processExtrinsic(L, b, e)

\* -------------------------------------------------------------- Submitter
\* An isFinish that hands back the record's key also when the relayer has
\* only voted.
isFinishVotedKey(r, ms) ==
  IF ms.Executed
  THEN << TRUE, ms.OriginMsTx >>
  ELSE IF \E j \in 1 .. Len(ms.Others) :
            \A q \in 1 .. Len(ms.Others[j]) : ms.Others[j][q] # r
       THEN << TRUE, ms.OriginMsTx >>
       ELSE << FALSE, NotExecuted >>

\* An isFinish whose vote test is the other way round: a list that holds
\* the relayer's account counts as its vote.
isFinishInverted(r, ms) ==
  IF ms.Executed
  THEN << TRUE, ms.OriginMsTx >>
  ELSE IF \E j \in 1 .. Len(ms.Others) :
            \E q \in 1 .. Len(ms.Others[j]) : ms.Others[j][q] = r
       THEN << TRUE, NotExecuted >>
       ELSE << FALSE, NotExecuted >>

\* writer.isFinish for relayer r: <<finished, tx>>.
isFinish(r, ms) ==
  IF ms.Executed
  THEN << TRUE, ms.OriginMsTx >>
  ELSE IF \E j \in 1 .. Len(ms.Others) :
            \A q \in 1 .. Len(ms.Others[j]) : ms.Others[j][q] # r
       THEN << TRUE, NotExecuted >>
       ELSE << FALSE, NotExecuted >>

\* writer.redeemTx, the test of its scan: the record is for the message's call.
Matches(ms, m) ==
  /\ ms.DestAddress = destAddress(m)
  /\ ms.DestAmount = actualAmount(m)

\* No timepoint: maybeTimePoint = []byte{}.
NoTimePoint == [BlockNumber |-> -1, MultiSignTxId |-> -1]

\* A redeemTx whose scan passes over the executed records.
redeemTxOpenOnly(r, m, L) ==
  LET hits == { k \in DOMAIN L : Matches(L[k], m) /\ ~L[k].Executed }
  IN  IF hits = {}
      THEN { << FALSE, NotExecuted, << NoTimePoint >> >> }
      ELSE { IF isFinish(r, L[k])[1]
             THEN << TRUE, isFinish(r, L[k])[2], << >> >>
             ELSE << FALSE, NotExecuted, << L[k].OriginMsTx >> >>
             : k \in hits }

\* writer.redeemTx on the relayer's turn, over ledger L: the outcomes
\* <<finished, tx, timepoints>> it can have, timepoints holding the timepoint
\* of the one extrinsic handed to submitTx, if any.  The scan ranges over a Go
\* map and stops at the first record that matches, so any matching record can
\* be the one that decides.
redeemTx(r, m, L) ==
  LET hits == { k \in DOMAIN L : Matches(L[k], m) }
  IN  IF hits = {}
      THEN { << FALSE, NotExecuted, << NoTimePoint >> >> }
      ELSE { IF isFinish(r, L[k])[1]
             THEN << TRUE, isFinish(r, L[k])[2], << >> >>
             ELSE << FALSE, NotExecuted, << L[k].OriginMsTx >> >>
             : k \in hits }

\* writer.ResolveMessage: the test guarding delete(w.listener.msTxAsMulti, tx).
ShouldDelete(tx) ==
  /\ tx.BlockNumber # NotExecuted.BlockNumber
  /\ tx.MultiSignTxId # NotExecuted.MultiSignTxId

\* A retry test that lets the counter pass zero.
RetryExhaustedBelowZero(n) == n - 1 < 0

\* writer.ResolveMessage: retryTime--; if retryTime == 0 { break }.
RetryExhausted(n) == n - 1 = 0

\* ------------------------------------------------------------------ state
VARIABLES
  height,       \* number of the finalized head
  live,         \* the relayer processes that run
  msTxAsMulti,  \* per relayer: listener.msTxAsMulti
  currentBlock, \* per relayer: pollBlocks' currentBlock
  fpc,          \* per relayer: where the Follower is: "poll" | "mutate" |
                \*               "execute" | "store" | ...
  resp,         \* per relayer: the extrinsics of the block still to process
  wasExecuted,  \* per relayer: the keys ever seen with Executed = true
  tpc,          \* per task: "none" | "wait" | "scan" | "submit" | "sleep" |
                \*           "del" | "done"
  retryTime,    \* per task: ResolveMessage's retryTime
  currentTx,    \* per task: the tx redeemTx returned with finished
  sent,         \* per task: the timepoints of the extrinsics it submitted
  isFinished,   \* per task: redeemTx is about to return finished
  maybeTimePoint, \* per task: the timepoint the scan chose for submitTx
  roundHeight,  \* per task: the height getRound read when the turn test passed
  handed,       \* the messages writer.ResolveMessage was called with, on any
                \* relayer, since the start
  chain,        \* SystemSpec: the blocks after startBlock, in order
  pool,         \* SystemSpec: per relayer, its extrinsic pending in the pool
  multisigs,    \* SystemSpec: the pallet's open multisig, per call
  executions,   \* SystemSpec: per call, the times the pallet executed it
  tH, tN, tTurn, \* TurnSpec: the inputs and the result of the turn test
  router,       \* FollowerSpec: the messages handed to router.Send, in order
  blockStore,   \* per relayer: the heights handed to StoreBlock, in order
  stop,         \* FollowerSpec: a signal is available on l.stop
  processed,    \* FollowerSpec: the heights whose extrinsics processBlock got
  failed,       \* FollowerSpec: the heights whose processBlock returned an error
  nA, nB, nOut, \* NonceSpec: two (block, index) pairs and their nonces
  rpBlocks, rpA, rpB \* ReplaySpec: the blocks left to replay, the two ledgers

Tasks == Relayers \X Msgs

followerVars == << msTxAsMulti, currentBlock, fpc, resp, wasExecuted >>
taskVars     == << tpc, retryTime, currentTx, sent, isFinished, maybeTimePoint,
                   roundHeight >>
chainVars    == << chain, pool, multisigs, executions >>
turnVars     == << tH, tN, tTurn >>
followVars   == << router, blockStore, stop, processed, failed >>
nonceVars    == << nA, nB, nOut >>
replayVars   == << rpBlocks, rpA, rpB >>
auxVars      == << followVars, nonceVars, replayVars >>
\* auxVars without the block store.
auxRest      == << router, stop, processed, failed, nonceVars, replayVars >>
vars == << height, live, followerVars, taskVars, handed, chainVars, turnVars,
          auxVars >>

EmptyLedger == [k \in {} |-> 0]

InitRelayers ==
  /\ msTxAsMulti = [r \in Relayers |-> EmptyLedger]
  /\ currentBlock = [r \in Relayers |-> startBlock]
  /\ fpc = [r \in Relayers |-> "poll"]
  /\ resp = [r \in Relayers |-> << >>]
  /\ wasExecuted = [r \in Relayers |-> {}]
  /\ tpc = [t \in Tasks |-> "none"]
  /\ retryTime = [t \in Tasks |-> RetryLimit]
  /\ currentTx = [t \in Tasks |-> NotExecuted]
  /\ sent = [t \in Tasks |-> << >>]
  /\ isFinished = [t \in Tasks |-> FALSE]
  /\ maybeTimePoint = [t \in Tasks |-> NoTimePoint]
  /\ roundHeight = [t \in Tasks |-> startBlock]
  /\ handed = {}

InitChain ==
  /\ height = startBlock
  /\ chain = << >>
  /\ pool = [r \in Relayers |-> << >>]
  /\ multisigs = [c \in Calls |-> << >>]
  /\ executions = [c \in Calls |-> 0]

InitTurn == tH = 0 /\ tN = 1 /\ tTurn = << >>

InitFollow ==
  /\ router = << >>
  /\ blockStore = [r \in Relayers |-> << >>]
  /\ stop = FALSE
  /\ processed = << >>
  /\ failed = {}

InitNonce == nA = << 0, 0 >> /\ nB = << 0, 0 >> /\ nOut = << >>

InitReplay == rpBlocks = << >> /\ rpA = EmptyLedger /\ rpB = EmptyLedger

\* One relayer process, of any index, is started.
Init ==
  /\ \E r \in Relayers : live = {r}
  /\ InitRelayers /\ InitChain /\ InitTurn /\ InitFollow /\ InitNonce /\ InitReplay

\* ------------------------------------------------------------------ chain
\* The finalized head moves on.  The turn test reads the height modulo the
\* rotation period and nothing else does, so heights past MaxHeight are kept
\* by their residue.
AdvanceHead ==
  /\ live # {}
  /\ height' = IF height < MaxHeight THEN height + 1
               ELSE (height + 1) % (TotalRelayers * Mod)
  /\ UNCHANGED << live, followerVars, taskVars, chainVars, handed, turnVars, auxVars >>

\* --------------------------------------------------------------- Follower
\* A cursor that moves on by two.
nextBlockSkip(b) == b + 2

\* pollBlocks: currentBlock++
nextBlock(b) == b + 1

\* After an extrinsic: on to the next one, or, none being left, processBlock
\* returns and the Follower stands before StoreBlock(currentBlock).
EndOfBlock(r, rest) ==
  /\ resp' = [resp EXCEPT ![r] = rest]
  /\ fpc' = [fpc EXCEPT ![r] = IF rest = << >> THEN "store" ELSE "mutate"]

\* listener.pollBlocks, one round of its loop up to the first ledger access:
\* the three calls of pollBlocks and the two of processBlock succeed, and blk
\* is what client.GetBlockByNumber returns.  The block asked for is
\* currentBlock whatever the finalized head is.  A round that ends on a
\* failed call of pollBlocks, or on a block that is not ready, sleeps and
\* changes nothing; one that ends on a failed call of processBlock is Panic.
pollBlocks(r, blk) ==
  /\ r \in live
  /\ fpc[r] = "poll"
  /\ EndOfBlock(r, blk)
  /\ UNCHANGED << height, live, msTxAsMulti, currentBlock, wasExecuted,
                  taskVars, chainVars, handed, turnVars, auxVars >>

\* Spec: the block is an input.
FetchAnyBlock(r) ==
  /\ currentBlock[r] <= MaxHeight
  /\ \E blk \in AnyBlocks : pollBlocks(r, blk)

\* The keys of L whose record is executed.
ExecutedKeys(L) == { k \in DOMAIN L : L[k].Executed }

\* listener.processBlock, the first pass over the ledger for the next
\* extrinsic.  After the markVote of an AsMultiExecuted the Follower stands
\* before markExecution.
processBlock(r) ==
  /\ r \in live
  /\ fpc[r] = "mutate"
  /\ LET L == processExtrinsic(msTxAsMulti[r], currentBlock[r], Head(resp[r]))
     IN  /\ msTxAsMulti' = [msTxAsMulti EXCEPT ![r] = L]
         /\ wasExecuted' = [wasExecuted EXCEPT ![r] = @ \cup ExecutedKeys(L)]
  /\ IF Head(resp[r]).Type = "AsMultiExecuted"
     THEN /\ fpc' = [fpc EXCEPT ![r] = "execute"]
          /\ UNCHANGED resp
     ELSE EndOfBlock(r, Tail(resp[r]))
  /\ UNCHANGED << height, live, currentBlock, taskVars, chainVars, handed,
                  turnVars, auxVars >>

\* listener.processBlock, AsMultiExecuted: markExecution, the second pass.
processExecuted(r) ==
  /\ r \in live
  /\ fpc[r] = "execute"
  /\ LET L == markExecution(msTxAsMulti[r], Head(resp[r]))
     IN  /\ msTxAsMulti' = [msTxAsMulti EXCEPT ![r] = L]
         /\ wasExecuted' = [wasExecuted EXCEPT ![r] = @ \cup ExecutedKeys(L)]
  /\ EndOfBlock(r, Tail(resp[r]))
  /\ UNCHANGED << height, live, currentBlock, taskVars, chainVars, handed,
                  turnVars, auxVars >>

\* listener.pollBlocks after processBlock has returned: StoreBlock(currentBlock)
\* and currentBlock++.  The ledger is not touched; the Submitters of the
\* process run beside this step as beside every other.
StoreCurrentBlock(r) ==
  /\ r \in live
  /\ fpc[r] = "store"
  /\ blockStore' = [blockStore EXCEPT ![r] = Append(@, currentBlock[r])]
  /\ currentBlock' = [currentBlock EXCEPT ![r] = nextBlock(@)]
  /\ fpc' = [fpc EXCEPT ![r] = "poll"]
  /\ UNCHANGED << height, live, msTxAsMulti, resp, wasExecuted, taskVars,
                  chainVars, handed, turnVars, auxRest >>

\* -------------------------------------------------------------- Submitter
\* writer.ResolveMessage: the goroutine for message m is started.
ResolveMessage(r, m) ==
  /\ r \in live
  /\ tpc[<<r, m>>] = "none"
  /\ tpc' = [tpc EXCEPT ![<<r, m>>] = "wait"]
  /\ handed' = handed \cup {m}
  /\ UNCHANGED << height, live, followerVars, retryTime, currentTx, sent,
                  isFinished, maybeTimePoint, roundHeight, chainVars, turnVars,
                  auxVars >>

\* writer.redeemTx, its loop on getRound: off turn it sleeps a RoundInterval
\* and asks again; on turn it starts to range over the ledger.
WaitTurn(r, m) ==
  /\ r \in live
  /\ tpc[<<r, m>>] = "wait"
  /\ IsMyTurn(height, r, TotalRelayers)
  /\ tpc' = [tpc EXCEPT ![<<r, m>>] = "scan"]
  /\ roundHeight' = [roundHeight EXCEPT ![<<r, m>>] = height]
  /\ UNCHANGED << height, live, followerVars, retryTime, currentTx, sent,
                  isFinished, maybeTimePoint, chainVars, handed, turnVars, auxVars >>

\* writer.redeemTx, the range over the ledger: either isFinish ends the call
\* (it returns after the deferred sleep), or the timepoint for submitTx is
\* chosen.
Scan(r, m) ==
  /\ r \in live
  /\ tpc[<<r, m>>] = "scan"
  /\ \E out \in redeemTx(r, m, msTxAsMulti[r]) :
       IF out[1]
       THEN /\ isFinished' = [isFinished EXCEPT ![<<r, m>>] = TRUE]
            /\ currentTx' = [currentTx EXCEPT ![<<r, m>>] = out[2]]
            /\ tpc' = [tpc EXCEPT ![<<r, m>>] = "sleep"]
            /\ maybeTimePoint' = maybeTimePoint
       ELSE /\ maybeTimePoint' = [maybeTimePoint EXCEPT ![<<r, m>>] = out[3][1]]
            /\ tpc' = [tpc EXCEPT ![<<r, m>>] = "submit"]
            /\ UNCHANGED << isFinished, currentTx >>
  /\ UNCHANGED << height, live, followerVars, retryTime, sent, roundHeight,
                  chainVars, handed, turnVars, auxVars >>

\* writer.redeemTx, from NewCall to the end of submitTx: the extrinsic with
\* the chosen timepoint is handed to the node, and redeemTx is about to
\* return (false, NotExecuted) after the deferred sleep.
submitTx(r, m) ==
  /\ r \in live
  /\ tpc[<<r, m>>] = "submit"
  /\ sent' = [sent EXCEPT ![<<r, m>>] = Append(@, maybeTimePoint[<<r, m>>])]
  /\ tpc' = [tpc EXCEPT ![<<r, m>>] = "sleep"]
  /\ UNCHANGED << retryTime, currentTx, isFinished, maybeTimePoint, roundHeight >>

\* Spec: what becomes of the extrinsic on the chain is not looked at.
Submit(r, m) ==
  /\ submitTx(r, m)
  /\ UNCHANGED << height, live, followerVars, chainVars, handed, turnVars, auxVars >>

\* writer.ResolveMessage, the body of its loop once redeemTx has returned,
\* the deferred time.Sleep(RoundInterval) being over: finished, the task goes
\* on to the delete or ends; otherwise retryTime-- and another call, or the
\* end.
Resolve(r, m) ==
  /\ r \in live
  /\ tpc[<<r, m>>] = "sleep"
  /\ IF isFinished[<<r, m>>]
     THEN /\ tpc' = [tpc EXCEPT ![<<r, m>>] =
                       IF ShouldDelete(currentTx[<<r, m>>]) THEN "del" ELSE "done"]
          /\ retryTime' = retryTime
     ELSE /\ retryTime' = [retryTime EXCEPT ![<<r, m>>] = @ - 1]
          /\ tpc' = [tpc EXCEPT ![<<r, m>>] =
                       IF RetryExhausted(retryTime[<<r, m>>])
                       THEN "done" ELSE "wait"]
  /\ maybeTimePoint' = [maybeTimePoint EXCEPT ![<<r, m>>] = NoTimePoint]
  /\ UNCHANGED << height, live, followerVars, currentTx, sent, isFinished,
                  roundHeight, chainVars, handed, turnVars, auxVars >>

\* writer.ResolveMessage: delete(w.listener.msTxAsMulti, currentTx); break.
DeleteExecuted(r, m) ==
  /\ r \in live
  /\ tpc[<<r, m>>] = "del"
  /\ msTxAsMulti' = [msTxAsMulti EXCEPT ![r] = Delete(@, currentTx[<<r, m>>])]
  /\ tpc' = [tpc EXCEPT ![<<r, m>>] = "done"]
  /\ UNCHANGED << height, live, currentBlock, fpc, resp, wasExecuted, retryTime,
                  currentTx, sent, isFinished, maybeTimePoint, roundHeight,
                  chainVars, handed, turnVars, auxVars >>

\* The ledger is a Go map read and written without a lock.  Two goroutines
\* of relayer r are at it at once, one of them writing: the Follower's store,
\* markVote or markExecution against a Submitter's range or delete, or one
\* Submitter's delete against another's range or delete.
Racing(r) ==
  \/ /\ fpc[r] \in {"mutate", "execute"}
     /\ \E m \in Msgs : tpc[<<r, m>>] \in {"scan", "del"}
  \/ \E m1, m2 \in Msgs :
       /\ m1 # m2
       /\ tpc[<<r, m1>>] = "del"
       /\ tpc[<<r, m2>>] \in {"scan", "del"}

\* The process of relayer r ends: its goroutines and their memory (the
\* ledger, the Follower's cursor, the tasks and their locals) are gone, shown
\* here as their initial values.  What it handed to the node (sent) and what
\* it wrote to the block store stay.
Exit(r) ==
  /\ live' = live \ {r}
  /\ msTxAsMulti' = [msTxAsMulti EXCEPT ![r] = EmptyLedger]
  /\ currentBlock' = [currentBlock EXCEPT ![r] = startBlock]
  /\ fpc' = [fpc EXCEPT ![r] = "poll"]
  /\ resp' = [resp EXCEPT ![r] = << >>]
  /\ wasExecuted' = [wasExecuted EXCEPT ![r] = {}]
  /\ tpc' = [t \in Tasks |-> IF t[1] = r THEN "none" ELSE tpc[t]]
  /\ retryTime' = [t \in Tasks |-> IF t[1] = r THEN RetryLimit ELSE retryTime[t]]
  /\ currentTx' = [t \in Tasks |-> IF t[1] = r THEN NotExecuted ELSE currentTx[t]]
  /\ isFinished' = [t \in Tasks |-> IF t[1] = r THEN FALSE ELSE isFinished[t]]
  /\ maybeTimePoint' =
       [t \in Tasks |-> IF t[1] = r THEN NoTimePoint ELSE maybeTimePoint[t]]
  /\ roundHeight' = [t \in Tasks |-> IF t[1] = r THEN startBlock ELSE roundHeight[t]]
  /\ UNCHANGED << height, sent, chainVars, handed, turnVars, auxVars >>

\* The runtime may stop the process on such an access ("concurrent map
\* iteration and map write", "concurrent map writes").
Crash(r) ==
  /\ r \in live
  /\ Racing(r)
  /\ Exit(r)

\* A goroutine of relayer r stands before a call whose failure ends the
\* process: the Follower before processBlock's GetBlock and
\* GetBlockByNumber (panic(err)); a Submitter before redeemTx's first NewCall
\* (panic(err)) and getRound's GetHeader (the nil header is dereferenced), or
\* before the second NewCall and the calls of submitTx (panic(err)).
CanPanic(r) ==
  \/ fpc[r] = "poll"
  \/ \E m \in Msgs : tpc[<<r, m>>] \in {"wait", "submit"}

\* Such a call fails: no goroutine recovers, the process ends.
Panic(r) ==
  /\ r \in live
  /\ CanPanic(r)
  /\ Exit(r)

Next ==
  \/ AdvanceHead
  \/ \E r \in Relayers : FetchAnyBlock(r)
  \/ \E r \in Relayers : processBlock(r)
  \/ \E r \in Relayers : processExecuted(r)
  \/ \E r \in Relayers : StoreCurrentBlock(r)
  \/ \E r \in Relayers, m \in Msgs : ResolveMessage(r, m)
  \/ \E r \in Relayers, m \in Msgs : WaitTurn(r, m)
  \/ \E r \in Relayers, m \in Msgs : Scan(r, m)
  \/ \E r \in Relayers, m \in Msgs : Submit(r, m)
  \/ \E r \in Relayers, m \in Msgs : Resolve(r, m)
  \/ \E r \in Relayers, m \in Msgs : DeleteExecuted(r, m)
  \/ \E r \in Relayers : Crash(r)
  \/ \E r \in Relayers : Panic(r)

Spec == Init /\ [][Next]_vars

\* FairSpec: the scheduler runs every goroutine that can take a step, and
\* the head keeps advancing.  A Submitter reads the round once per
\* RoundInterval and call, at heights the chain's pace picks: it is promised
\* to pass the turn test only if its turn lasts.  No call is promised to
\* fail.
Fairness ==
  /\ WF_vars(AdvanceHead)
  /\ \A r \in Relayers :
       /\ WF_vars(FetchAnyBlock(r))
       /\ WF_vars(processBlock(r))
       /\ WF_vars(processExecuted(r))
       /\ WF_vars(StoreCurrentBlock(r))
  /\ \A r \in Relayers, m \in Msgs :
       /\ WF_vars(WaitTurn(r, m))
       /\ WF_vars(Scan(r, m))
       /\ WF_vars(Submit(r, m))
       /\ WF_vars(Resolve(r, m))
       /\ WF_vars(DeleteExecuted(r, m))

FairSpec == Spec /\ Fairness

\* --------------------------------------------------------------- PruneSpec
\* Spec on blocks whose extrinsics are numbered from 0, as ExtrinsicIndex
\* numbers them: the multi-sig account's extrinsic can be the first of its
\* block wherever no inherent precedes it.  All are signed by relayer 0.
ZeroBlocks ==
  UNION { { [j \in 1 .. k |-> Extrinsic(f[j][1], j - 1, f[j][2], 0)] :
              f \in [1 .. k -> ExtTypes \X Calls] } : k \in 0 .. MaxPruneExt }

FetchZeroBlock(r) ==
  /\ currentBlock[r] <= MaxPruneHeight
  /\ \E blk \in ZeroBlocks : pollBlocks(r, blk)

PruneNext ==
  \/ AdvanceHead
  \/ \E r \in Relayers : FetchZeroBlock(r)
  \/ \E r \in Relayers : processBlock(r)
  \/ \E r \in Relayers : processExecuted(r)
  \/ \E r \in Relayers : StoreCurrentBlock(r)
  \/ \E r \in Relayers, m \in Msgs : ResolveMessage(r, m)
  \/ \E r \in Relayers, m \in Msgs : WaitTurn(r, m)
  \/ \E r \in Relayers, m \in Msgs : Scan(r, m)
  \/ \E r \in Relayers, m \in Msgs : Submit(r, m)
  \/ \E r \in Relayers, m \in Msgs : Resolve(r, m)
  \/ \E r \in Relayers, m \in Msgs : DeleteExecuted(r, m)
  \/ \E r \in Relayers : Crash(r)
  \/ \E r \in Relayers : Panic(r)

PruneSpec == Init /\ [][PruneNext]_vars

\* -------------------------------------------------------------- SystemSpec
\* The call a message's extrinsics carry.
CallOf(m) == [DestAddress |-> destAddress(m), DestAmount |-> actualAmount(m)]

\* The multisig pallet's as_multi for the extrinsic at index j of block b,
\* signed by relayer r for message m with timepoint tp, on the pallet state
\* st = [ms, ex, events].  With a multisig open for the call it needs that
\* multisig's timepoint and a signer who has not approved yet, and executes
\* the call once Threshold signers approved; with none open it takes no
\* timepoint and opens one.  A failed extrinsic leaves no multi-sig event.
asMulti(st, r, m, tp, b, j) ==
  LET c == CallOf(m)
  IN  IF st.ms[c] # << >>
      THEN LET o == st.ms[c][1]
           IN  IF tp # o.when \/ r \in o.approvals
               THEN st
               ELSE IF Cardinality(o.approvals) + 1 >= Threshold
                    THEN [ms     |-> [st.ms EXCEPT ![c] = << >>],
                          ex     |-> [st.ex EXCEPT ![c] = @ + 1],
                          events |-> Append(st.events,
                                            Extrinsic("AsMultiExecuted", j, c, r))]
                    ELSE [st EXCEPT
                            !.ms[c] = << [o EXCEPT !.approvals = @ \cup {r}] >>,
                            !.events = Append(@, Extrinsic("AsMultiApprove", j, c, r))]
      ELSE IF tp # NoTimePoint
           THEN st
           ELSE [st EXCEPT
                   !.ms[c] = << [when |-> MultiSignTx(b, j), approvals |-> {r}] >>,
                   !.events = Append(@, Extrinsic("AsMultiNew", j, c, r))]

\* The pallet state after the first n extrinsics of block b, who[j] the
\* relayer whose pending extrinsic sits at index j.
RECURSIVE applyBlock(_, _, _, _)
applyBlock(st, who, b, n) ==
  IF n = 0 THEN st
  ELSE LET x == pool[who[n]][1]
       IN  asMulti(applyBlock(st, who, b, n - 1), who[n], x[1], x[2], b, n)

\* A block is produced and finalized: it takes the pending extrinsics, in any
\* order, MaxSysExt of them at most; the others wait for a later block.
ProduceBlock ==
  /\ height < MaxChain
  /\ \E k \in 0 .. MaxSysExt : \E who \in [1 .. k -> Relayers] :
       /\ \A i, j \in 1 .. k : who[i] = who[j] => i = j
       /\ \A i \in 1 .. k : pool[who[i]] # << >>
       /\ \/ k = MaxSysExt
          \/ \A r \in Relayers : pool[r] # << >> => \E i \in 1 .. k : who[i] = r
       /\ LET st == applyBlock([ms |-> multisigs, ex |-> executions, events |-> << >>],
                               who, height + 1, k)
          IN  /\ multisigs' = st.ms
              /\ executions' = st.ex
              /\ chain' = Append(chain, st.events)
              /\ pool' = [r \in Relayers |->
                            IF \E i \in 1 .. k : who[i] = r THEN << >> ELSE pool[r]]
  /\ height' = height + 1
  /\ UNCHANGED << live, followerVars, taskVars, handed, turnVars, auxVars >>

\* The extrinsics of the multi-sig account in block h of the chain.
BlockAt(h) == IF h <= startBlock THEN << >> ELSE chain[h - startBlock]

\* listener.pollBlocks, one round up to the first ledger access, on the
\* chain: GetBlockHash(currentBlock) succeeds once the chain has the block.
\* The chain's best block is its finalized head here.
FollowBlock(r) ==
  /\ currentBlock[r] <= height
  /\ pollBlocks(r, BlockAt(currentBlock[r]))

\* writer.submitTx reads the account's nonce and hands the signed extrinsic x
\* to the node, whatever the node answers: the result of
\* SubmitAndWatchExtrinsic is discarded.  Either the node takes x (an account
\* has one extrinsic per nonce in the pool: x replaces one that is pending),
\* or it does not and the pool stays as it is: the call failed, x was
\* refused, the node kept the pending one, or a block took the pending one
\* after the nonce was read and x came with a stale nonce.
authorSubmit(r, x) ==
  \/ pool' = [pool EXCEPT ![r] = << x >>]
  \/ pool' = pool

\* SystemSpec: the extrinsic goes to the node's pool.
SubmitToPool(r, m) ==
  /\ submitTx(r, m)
  /\ authorSubmit(r, << m, maybeTimePoint[<<r, m>>] >>)
  /\ UNCHANGED << height, live, followerVars, chain, multisigs, executions,
                  handed, turnVars, auxVars >>

\* SystemSpec: the turn test, passed MaxSysSent times at most; a task that
\* has handed that many extrinsics to the node reads off-turn rounds only.
WaitTurnCapped(r, m) ==
  /\ Len(sent[<<r, m>>]) < MaxSysSent
  /\ WaitTurn(r, m)

\* SystemSpec: the Follower of r takes up a block; the Followers of
\* MaxFollowing relayers at most have left startBlock, the others are still
\* in the rounds that end on a failed call or on a block that is not ready.
FollowBlockCapped(r) ==
  /\ \/ currentBlock[r] # startBlock
     \/ Cardinality({ q \in Relayers : currentBlock[q] # startBlock
                                         \/ fpc[q] # "poll" }) < MaxFollowing
  /\ FollowBlock(r)

\* Every relayer of the deployment runs.
SysInit ==
  /\ live = Relayers
  /\ InitRelayers /\ InitChain /\ InitTurn /\ InitFollow /\ InitNonce /\ InitReplay

SysNext ==
  \/ ProduceBlock
  \/ \E r \in Relayers : FollowBlockCapped(r)
  \/ \E r \in Relayers : processBlock(r)
  \/ \E r \in Relayers : processExecuted(r)
  \/ \E r \in Relayers : StoreCurrentBlock(r)
  \/ \E r \in Relayers, m \in Msgs : ResolveMessage(r, m)
  \/ \E r \in Relayers, m \in Msgs : WaitTurnCapped(r, m)
  \/ \E r \in Relayers, m \in Msgs : Scan(r, m)
  \/ \E r \in Relayers, m \in Msgs : SubmitToPool(r, m)
  \/ \E r \in Relayers, m \in Msgs : Resolve(r, m)
  \/ \E r \in Relayers, m \in Msgs : DeleteExecuted(r, m)
  \/ \E r \in Relayers : Crash(r)
  \/ \E r \in Relayers : Panic(r)

SystemSpec == SysInit /\ [][SysNext]_vars

\* ---------------------------------------------------------------- TurnSpec
\* The turn test on every height and deployment size within the bounds.
TurnInit ==
  /\ tH \in 0 .. MaxTurnHeight
  /\ tN \in 1 .. MaxTurnTotal
  /\ tTurn = << >>
  /\ live = {}
  /\ InitRelayers /\ InitChain /\ InitFollow /\ InitNonce /\ InitReplay

\* The test as each relayer index in [0, tN) evaluates it at height tH.
TurnEval ==
  /\ tTurn = << >>
  /\ tTurn' = [i \in 0 .. (tN - 1) |-> IsMyTurn(tH, i, tN)]
  /\ UNCHANGED << tH, tN, height, live, followerVars, taskVars, handed,
                  chainVars, auxVars >>

TurnNext == TurnEval

TurnSpec == TurnInit /\ [][TurnNext]_vars

\* ------------------------------------------------------------ FollowerSpec
\* One Follower alone, from the select at the top of its loop to
\* currentBlock++, with every RPC outcome and the stop channel.  fpc takes
\* further values here: "fetch" (the default branch was taken), "sleep"
\* (time.Sleep(BlockRetryInterval)), "store" (processBlock returned),
\* "terminated" (pollBlocks returned) and "panicked" (panic(err)).

\* e.Amount of the UtilityBatch extrinsics: "0", "1000" and the empty string.
BatchAmounts == { <<"0">>, <<"1", "0", "0", "0">>, << >> }

\* models.ExtrinsicResponse of a utility.batch deposit.
UtilityBatch(idx, amount) ==
  [Type           |-> "UtilityBatch",
   ExtrinsicIndex |-> idx,
   Amount         |-> amount,
   Recipient      |-> <<"a", "b">>]

\* The extrinsics a block of FollowerSpec is made of: the deposits, and the
\* multi-sig extrinsics of one call signed by one relayer.
FShapes ==
  { <<"UtilityBatch", a>> : a \in BatchAmounts }
    \cup { <<t, CHOOSE c \in Calls : TRUE>> : t \in ExtTypes }

FExtrinsic(shape, idx) ==
  IF shape[1] = "UtilityBatch" THEN UtilityBatch(idx, shape[2])
  ELSE Extrinsic(shape[1], idx, shape[2], 0)

FBlocks ==
  UNION { { [j \in 1 .. k |-> FExtrinsic(f[j], j)] : f \in [1 .. k -> FShapes] } :
            k \in 0 .. MaxFExt }

\* int64(x) of a quotient: the fraction is dropped, towards zero.
TruncDiv(a, d) == IF a >= 0 THEN a \div d ELSE -((-a) \div d)

\* processBlock, UtilityBatch: fee = int64(FixedFee + float64(amount) * FeeRate)
batchFee(amount) == FixedFee + TruncDiv(amount, FeeRateDiv)

\* msg.NewFungibleTransfer: the fields that vary.
FungibleTransfer(nonce, amount, recipient) ==
  [DepositNonce |-> nonce, Amount |-> amount, Recipient |-> recipient]

\* listener.submitMessage: the message goes to the router unless err is set.
submitMessage(R, m, err) == IF err THEN R ELSE Append(R, m)

\* listener.processBlock, the body of its loop for one extrinsic of block b
\* with the UtilityBatch branch: the ledger, the router's messages, and
\* whether processBlock returns an error here.
dispatch(L, R, b, e) ==
  LET L2 == loopBody(L, b, e)
  IN  IF e.Type # "UtilityBatch"
      THEN [ledger |-> L2, router |-> R, err |-> FALSE]
      ELSE LET p   == ParseInt(e.Amount)
               amt == p.val - batchFee(p.val)
               m   == FungibleTransfer(depositNonce(b, e.ExtrinsicIndex), amt,
                                       e.Recipient)
           IN  IF p.err
               THEN [ledger |-> L2, router |-> R, err |-> TRUE]
               ELSE [ledger |-> L2, router |-> submitMessage(R, m, FALSE),
                     err |-> FALSE]

\* The shutdown signal arrives on l.stop.
StopSignal ==
  /\ ~stop
  /\ stop' = TRUE
  /\ UNCHANGED << height, live, followerVars, taskVars, chainVars, handed, turnVars,
                  router, blockStore, processed, failed, nonceVars, replayVars >>

\* pollBlocks, the select: with a signal on l.stop it returns "terminated",
\* without one it takes the default branch.
Select(r) ==
  /\ r \in live
  /\ fpc[r] = "poll"
  /\ fpc' = [fpc EXCEPT ![r] = IF stop THEN "terminated" ELSE "fetch"]
  /\ UNCHANGED << height, live, msTxAsMulti, currentBlock, resp, wasExecuted,
                  taskVars, chainVars, handed, turnVars, auxVars >>

\* The RPC calls of one round, in order.
FetchCalls ==
  <<"GetFinalizedHead", "GetHeader", "GetBlockHash", "GetBlock",
    "GetBlockByNumber">>

\* What the Follower does when the call fails: pollBlocks sleeps and goes
\* round again on its own three calls, processBlock panics on its two.
OnFetchError(call) ==
  IF call \in {"GetFinalizedHead", "GetHeader", "GetBlockHash"}
  THEN "sleep" ELSE "panicked"

\* One round in which the RPC call numbered c fails (GetBlockHash also when
\* the block is not ready yet).
FetchError(r, c) ==
  /\ r \in live
  /\ fpc[r] = "fetch"
  /\ fpc' = [fpc EXCEPT ![r] = OnFetchError(FetchCalls[c])]
  /\ UNCHANGED << height, live, msTxAsMulti, currentBlock, resp, wasExecuted,
                  taskVars, chainVars, handed, turnVars, auxVars >>

\* time.Sleep(BlockRetryInterval) is over; continue.
Wake(r) ==
  /\ r \in live
  /\ fpc[r] = "sleep"
  /\ fpc' = [fpc EXCEPT ![r] = "poll"]
  /\ UNCHANGED << height, live, msTxAsMulti, currentBlock, resp, wasExecuted,
                  taskVars, chainVars, handed, turnVars, auxVars >>

\* Every call succeeds: processBlock has the extrinsics blk of currentBlock.
FetchBlock(r, blk) ==
  /\ r \in live
  /\ fpc[r] = "fetch"
  /\ currentBlock[r] <= MaxFHeight
  /\ resp' = [resp EXCEPT ![r] = blk]
  /\ processed' = Append(processed, currentBlock[r])
  /\ fpc' = [fpc EXCEPT ![r] = IF blk = << >> THEN "store" ELSE "mutate"]
  /\ UNCHANGED << height, live, msTxAsMulti, currentBlock, wasExecuted,
                  taskVars, chainVars, handed, turnVars, router, blockStore, stop,
                  failed, nonceVars, replayVars >>

\* processBlock on the next extrinsic; on an error it returns at once.
Dispatch(r) ==
  /\ r \in live
  /\ fpc[r] = "mutate"
  /\ LET d == dispatch(msTxAsMulti[r], router, currentBlock[r], Head(resp[r]))
         rest == IF d.err THEN << >> ELSE Tail(resp[r])
     IN  /\ msTxAsMulti' = [msTxAsMulti EXCEPT ![r] = d.ledger]
         /\ wasExecuted' = [wasExecuted EXCEPT ![r] = @ \cup ExecutedKeys(d.ledger)]
         /\ router' = d.router
         /\ failed' = IF d.err THEN failed \cup {currentBlock[r]} ELSE failed
         /\ resp' = [resp EXCEPT ![r] = rest]
         /\ fpc' = [fpc EXCEPT ![r] = IF rest = << >> THEN "store" ELSE "mutate"]
  /\ UNCHANGED << height, live, currentBlock, taskVars, chainVars, handed, turnVars,
                  blockStore, stop, processed, nonceVars, replayVars >>

\* pollBlocks after processBlock, whatever it returned: StoreBlock, then
\* currentBlock++.
StoreBlock(r) ==
  /\ r \in live
  /\ fpc[r] = "store"
  /\ blockStore' = [blockStore EXCEPT ![r] = Append(@, currentBlock[r])]
  /\ currentBlock' = [currentBlock EXCEPT ![r] = nextBlock(@)]
  /\ fpc' = [fpc EXCEPT ![r] = "poll"]
  /\ UNCHANGED << height, live, msTxAsMulti, resp, wasExecuted, taskVars,
                  chainVars, handed, turnVars, router, stop, processed, failed,
                  nonceVars, replayVars >>

FollowerInit ==
  /\ live = {0}
  /\ InitRelayers /\ InitChain /\ InitTurn /\ InitFollow /\ InitNonce /\ InitReplay

FollowerNext ==
  \/ StopSignal
  \/ \E r \in Relayers : Select(r)
  \/ \E r \in Relayers, c \in 1 .. Len(FetchCalls) : FetchError(r, c)
  \/ \E r \in Relayers : Wake(r)
  \/ \E r \in Relayers, blk \in FBlocks : FetchBlock(r, blk)
  \/ \E r \in Relayers : Dispatch(r)
  \/ \E r \in Relayers : StoreBlock(r)

FollowerSpec == FollowerInit /\ [][FollowerNext]_vars

\* The Go scheduler runs the Follower's goroutine: every step it can take it
\* takes.  Which outcome an RPC call has, and whether a stop signal is ever
\* sent, is not promised.
FollowerFairness ==
  \A r \in Relayers :
    /\ WF_vars(Select(r))
    /\ WF_vars(Wake(r))
    /\ WF_vars(Dispatch(r))
    /\ WF_vars(StoreBlock(r))
    /\ WF_vars(\E c \in 1 .. Len(FetchCalls) : FetchError(r, c)
                 \/ \E blk \in FBlocks : FetchBlock(r, blk))

FairFollowerSpec == FollowerSpec /\ FollowerFairness

\* --------------------------------------------------------------- NonceSpec
\* depositNonce on every two (block, index) pairs within the bounds.
NonceKeys == (0 .. MaxNonceKey) \X (0 .. MaxNonceKey)

NonceInit ==
  /\ nA \in NonceKeys
  /\ nB \in NonceKeys
  /\ nOut = << >>
  /\ live = {}
  /\ InitRelayers /\ InitChain /\ InitTurn /\ InitFollow /\ InitReplay

NonceEval ==
  /\ nOut = << >>
  /\ nOut' = << depositNonce(nA[1], nA[2]), depositNonce(nB[1], nB[2]) >>
  /\ UNCHANGED << nA, nB, height, live, followerVars, taskVars, chainVars,
                  handed, turnVars, followVars, replayVars >>

NonceNext == NonceEval

NonceSpec == NonceInit /\ [][NonceNext]_vars

\* -------------------------------------------------------------- ReplaySpec
\* The Follower run twice over the same blocks from the same ledger, each
\* run ranging over its map in orders of its own.

\* The orders in which a range over a map with the keys S can visit them.
Orders(S) ==
  { f \in [1 .. Cardinality(S) -> S] :
      \A i, j \in 1 .. Cardinality(S) : f[i] = f[j] => i = j }

\* A markVote whose loop ends at the first record it updates.
RECURSIVE markVoteRangeFirst(_, _, _)
markVoteRangeFirst(L, e, order) ==
  IF order = << >> THEN L
  ELSE LET k == Head(order)
       IN  IF Unexecuted(L[k], e)
           THEN [L EXCEPT ![k].Others = Append(@, e.OtherSignatories)]
           ELSE markVoteRangeFirst(L, e, Tail(order))

\* listener.markVote, one key after the other in the order of the range.
RECURSIVE markVoteRange(_, _, _)
markVoteRange(L, e, order) ==
  IF order = << >> THEN L
  ELSE LET k == Head(order)
       IN  markVoteRange(
             IF Unexecuted(L[k], e)
             THEN [L EXCEPT ![k].Others = Append(@, e.OtherSignatories)]
             ELSE L,
             e, Tail(order))

\* A markExecution that does not look at the address and the amount.
RECURSIVE markExecutionRangeAll(_, _, _)
markExecutionRangeAll(L, e, order) ==
  IF order = << >> THEN L
  ELSE LET k == Head(order)
       IN  markExecutionRangeAll(
             IF ~L[k].Executed THEN [L EXCEPT ![k].Executed = TRUE] ELSE L,
             e, Tail(order))

\* listener.markExecution, likewise.
RECURSIVE markExecutionRange(_, _, _)
markExecutionRange(L, e, order) ==
  IF order = << >> THEN L
  ELSE LET k == Head(order)
       IN  markExecutionRange(
             IF Unexecuted(L[k], e) THEN [L EXCEPT ![k].Executed = TRUE] ELSE L,
             e, Tail(order))

\* listener.processBlock, the body of its loop for one extrinsic of block b,
\* with ov the order of markVote's range and ox that of markExecution's.
processExtrinsicRange(L, b, e, ov, ox) ==
  LET key == MultiSignTx(b, e.ExtrinsicIndex)
  IN  CASE e.Type = "AsMultiNew"      -> Store(L, key, NewRecord(e, key))
        [] e.Type = "AsMultiApprove"  -> markVoteRange(L, e, ov)
        [] e.Type = "AsMultiExecuted" ->
             markExecutionRange(markVoteRange(L, e, ov), e, ox)
        [] OTHER                      -> L

\* The blocks of a replay: multi-sig extrinsics of either call, signed by
\* one relayer.
ReplayBlocks ==
  UNION { { [j \in 1 .. k |-> Extrinsic(f[j][1], j, f[j][2], 0)] :
              f \in [1 .. k -> ExtTypes \X Calls] } : k \in 0 .. MaxReplayExt }

ReplayInit ==
  /\ rpBlocks \in [1 .. MaxReplay -> ReplayBlocks]
  /\ rpA = EmptyLedger
  /\ rpB = EmptyLedger
  /\ live = {}
  /\ InitRelayers /\ InitChain /\ InitTurn /\ InitFollow /\ InitNonce

\* The height of the block at the head of rpBlocks.
ReplayHeight == startBlock + (MaxReplay - Len(rpBlocks))

\* Both runs dispatch the next extrinsic of the block.
ReplayExtrinsic ==
  /\ rpBlocks # << >>
  /\ Head(rpBlocks) # << >>
  /\ LET e == Head(Head(rpBlocks))
     IN  /\ \E ov \in Orders(DOMAIN rpA), ox \in Orders(DOMAIN rpA) :
               rpA' = processExtrinsicRange(rpA, ReplayHeight, e, ov, ox)
         /\ \E ov \in Orders(DOMAIN rpB), ox \in Orders(DOMAIN rpB) :
               rpB' = processExtrinsicRange(rpB, ReplayHeight, e, ov, ox)
  /\ rpBlocks' = << Tail(Head(rpBlocks)) >> \o Tail(rpBlocks)
  /\ UNCHANGED << height, live, followerVars, taskVars, chainVars, handed, turnVars,
                  followVars, nonceVars >>

\* Both runs are through with the block: currentBlock++.
ReplayNextBlock ==
  /\ rpBlocks # << >>
  /\ Head(rpBlocks) = << >>
  /\ rpBlocks' = Tail(rpBlocks)
  /\ UNCHANGED << rpA, rpB, height, live, followerVars, taskVars, chainVars,
                  handed, turnVars, followVars, nonceVars >>

ReplayNext == ReplayExtrinsic \/ ReplayNextBlock

ReplaySpec == ReplayInit /\ [][ReplayNext]_vars

\* ------------------------------------------------------------------ claims

\* C1: over all relayers, at most one initiating extrinsic (as_multi without
\* a timepoint) is submitted for a message.
C1_AtMostOneInitiation ==
  \A m \in Msgs :
    Cardinality({ x \in Relayers \X (1 .. RetryLimit) :
                    /\ x[2] <= Len(sent[<<x[1], m>>])
                    /\ sent[<<x[1], m>>][x[2]] = NoTimePoint }) <= 1

\* The messages with call c that were handed to ResolveMessage, on a relayer
\* that runs or on one whose process has ended since.
Resolved(c) == { m \in handed : CallOf(m) = c }

\* C3: while every relayer runs, the pallet has executed the transfer of the
\* messages handed to ResolveMessage at most once each: the executions of a
\* call never outnumber the messages that ask for it.  This is the claim's
\* "executed exactly once" as far as it bounds the executions from above;
\* that an execution comes about at all is not stated here.
C3_ExactlyOneEffect ==
  live = Relayers =>
    \A c \in Calls : executions[c] <= Cardinality(Resolved(c))

\* C2: a relayer never hands submitTx two approvals (extrinsics with a
\* timepoint) that name the same origin key.
C2_NoRepeatedApproval ==
  \A r \in Relayers : \A m1, m2 \in Msgs :
    \A i \in 1 .. Len(sent[<<r, m1>>]) : \A j \in 1 .. Len(sent[<<r, m2>>]) :
      (/\ << m1, i >> # << m2, j >>
       /\ sent[<<r, m1>>][i] # NoTimePoint)
      => sent[<<r, m1>>][i] # sent[<<r, m2>>][j]

\* C4: at every height exactly one relayer index in [0, n) passes the turn test.
C4_ExactlyOneOnTurn ==
  tTurn # << >> => Cardinality({ i \in DOMAIN tTurn : tTurn[i] }) = 1

\* C5: index i passes the turn test iff height mod n = (i*Mod - 1) mod n, the
\* subtraction taken on unsigned 64-bit integers.
C5_TurnIffResidue ==
  tTurn # << >> =>
    \A i \in DOMAIN tTurn :
      tTurn[i] <=> (tH % tN = U64Mod(U64Sub(U64(i * Mod), U64(1)), tN))

\* C6: the ledger never holds two un-executed records with the same
\* DestAddress and DestAmount.
C6_OneUnexecutedPerCall ==
  \A r \in Relayers : \A k1, k2 \in DOMAIN msTxAsMulti[r] :
    (/\ k1 # k2
     /\ ~msTxAsMulti[r][k1].Executed
     /\ ~msTxAsMulti[r][k2].Executed)
    => ~(/\ msTxAsMulti[r][k1].DestAddress = msTxAsMulti[r][k2].DestAddress
         /\ msTxAsMulti[r][k1].DestAmount = msTxAsMulti[r][k2].DestAmount)

\* C7: a key whose record was once executed never again holds a record that
\* is not executed.
C7_ExecutedIsMonotone ==
  \A r \in Relayers : \A k \in wasExecuted[r] :
    k \in DOMAIN msTxAsMulti[r] => msTxAsMulti[r][k].Executed

\* C7 witness: a record stays executed in the ledger while the Follower has
\* gone on to insert a later record for the same call.
C7_Witness ==
  \E r \in Relayers : \E k \in wasExecuted[r] : \E k2 \in DOMAIN msTxAsMulti[r] :
    /\ k \in DOMAIN msTxAsMulti[r]
    /\ k2.BlockNumber > k.BlockNumber
    /\ ~msTxAsMulti[r][k2].Executed
    /\ msTxAsMulti[r][k2].DestAddress = msTxAsMulti[r][k].DestAddress
    /\ msTxAsMulti[r][k2].DestAmount = msTxAsMulti[r][k].DestAmount

\* C8: the Follower is never inside a ledger mutation (store, markVote,
\* markExecution) while a Submitter task of the same process ranges over the
\* ledger or deletes from it, and no two Submitter tasks are at the ledger at
\* once.
C8_LedgerAccessExclusive ==
  \A r \in Relayers :
    /\ ~(/\ fpc[r] \in {"mutate", "execute"}
         /\ \E m \in Msgs : tpc[<<r, m>>] \in {"scan", "del"})
    /\ \A m1, m2 \in Msgs :
         (/\ tpc[<<r, m1>>] \in {"scan", "del"}
          /\ tpc[<<r, m2>>] \in {"scan", "del"}) => m1 = m2

\* C9: every Submitter task that was started ends, or its process exits.
C9_TasksTerminate ==
  \A r \in Relayers, m \in Msgs :
    (tpc[<<r, m>>] # "none") ~> (tpc[<<r, m>>] = "done" \/ r \notin live)

\* C10: a Submitter task hands submitTx at most 5 extrinsics; with the fifth
\* handed over it is in its last call of redeemTx, and once that call has
\* returned (retryTime is 0) the task has ended; a task that has ended stays
\* so while its process runs, and submits nothing.
C10_AtMostFiveSubmissions ==
  /\ [](\A t \in Tasks :
          /\ Len(sent[t]) <= 5
          /\ t[1] \in live =>
               /\ Len(sent[t]) = 5 => tpc[t] \in {"sleep", "done"}
               /\ retryTime[t] = 0 => tpc[t] = "done")
  /\ [][\A t \in Tasks :
          tpc[t] = "done" =>
            /\ sent'[t] = sent[t]
            /\ t[1] \in live' => tpc'[t] = "done"]_vars

\* C10 witness: a task that ended after submitting five extrinsics.
C10_Witness ==
  \E t \in Tasks : Len(sent[t]) = 5 /\ tpc[t] = "done" /\ retryTime[t] = 0

\* C12: two distinct (block, extrinsic index) pairs never get the same
\* deposit nonce.
C12_NonceInjective ==
  (nOut # << >> /\ nA # nB) => nOut[1] # nOut[2]

\* C11: a UtilityBatch whose amount after the fee is <= 0 hands no Transfer
\* message to the Router: every message the Router got carries an amount > 0.
C11_NoTransferWithoutAmount ==
  \A i \in 1 .. Len(router) : router[i].Amount > 0

\* C13: a round of the Follower that ends on a failed RPC call (it leaves
\* "fetch" without the block's extrinsics) keeps the cursor where it was and
\* puts the Follower to sleep for a retry; it never ends the Follower.
C13_FetchErrorRetries ==
  [][\A r \in live :
       (fpc[r] = "fetch" /\ fpc'[r] \notin {"fetch", "mutate", "store"}) =>
         (fpc'[r] = "sleep" /\ currentBlock'[r] = currentBlock[r])]_vars

\* C14: every height written to the BlockStore is the height of a block
\* whose processBlock returned without an error.
C14_StoredBlocksProcessed ==
  \A r \in Relayers :
    \A i \in 1 .. Len(blockStore[r]) : blockStore[r][i] \notin failed

\* C15: the heights handed to processBlock are startBlock, startBlock + 1,
\* ... in this order, none skipped and none twice; and every ledger update
\* belongs to the latest of them, so the updates of block N all come before
\* the first update of block N + 1.
C15_BlocksInHeightOrder ==
  /\ [](\A i \in 1 .. Len(processed) : processed[i] = startBlock + (i - 1))
  /\ [][\A r \in live :
          msTxAsMulti'[r] # msTxAsMulti[r] =>
            /\ processed' = processed
            /\ processed # << >>
            /\ currentBlock[r] = processed[Len(processed)]
            /\ \A k \in (DOMAIN msTxAsMulti'[r]) \ (DOMAIN msTxAsMulti[r]) :
                 k.BlockNumber = processed[Len(processed)]]_vars

\* Three blocks were processed and the ledger holds records of two of them.
C15_Witness ==
  /\ Len(processed) = 3
  /\ \E r \in live :
       \E k1, k2 \in DOMAIN msTxAsMulti[r] : k1.BlockNumber < k2.BlockNumber

\* C16: once a signal is available on the stop channel, a running Follower
\* eventually returns "terminated", and after that it processes no block.
C16_StopTerminates ==
  /\ \A r \in Relayers :
       (r \in live /\ stop /\ fpc[r] # "panicked") ~> (fpc[r] = "terminated")
  /\ [][\A r \in live :
          fpc[r] = "terminated" =>
            (fpc'[r] = "terminated" /\ processed' = processed)]_vars

\* C17: two runs of the Follower over the same blocks from the same ledger
\* hold the same ledger, whatever the orders their ranges took.
C17_ReplayDeterministic == rpA = rpB

\* The replay is over, and one markVote updated two records on its way.
C17_Witness ==
  /\ rpBlocks = << >>
  /\ \E k1, k2 \in DOMAIN rpA :
       /\ k1 # k2
       /\ rpA[k1].DestAddress = rpA[k2].DestAddress
       /\ Len(rpA[k1].Others) >= 2
       /\ Len(rpA[k2].Others) >= 2

\* A task hands submitTx exactly the timepoint its scan chose, in the step
\* that leaves "submit" and in no other; a task whose call of redeemTx
\* reported finished hands it nothing more, and ends.  On the steps of a
\* process that goes on running.
SubmitsWhatScanChose ==
  \A r \in live', m \in Msgs :
    LET t == << r, m >>
    IN  /\ sent'[t] # sent[t] => tpc[t] = "submit"
        /\ (tpc[t] = "submit" /\ tpc'[t] # "submit") =>
             sent'[t] = Append(sent[t], maybeTimePoint[t])
        /\ isFinished[t] =>
             /\ sent'[t] = sent[t]
             /\ retryTime'[t] = retryTime[t]
             /\ tpc[t] \in {"sleep", "del", "done"}
             /\ tpc'[t] \in {"sleep", "del", "done"}

\* C18: a scan on the relayer's turn that finds no un-executed record with
\* the message's address and amount goes on to submit an initiating call (no
\* timepoint); executed records do not count as matches.
C18_InitiatesWithoutOpenMatch ==
  [][/\ SubmitsWhatScanChose
     /\ \A r \in live', m \in Msgs :
          LET L    == msTxAsMulti[r]
              open == { k \in DOMAIN L :
                          /\ ~L[k].Executed
                          /\ L[k].DestAddress = destAddress(m)
                          /\ L[k].DestAmount = actualAmount(m) }
          IN  (tpc[<<r, m>>] = "scan" /\ tpc'[<<r, m>>] # "scan" /\ open = {}) =>
                /\ tpc'[<<r, m>>] = "submit"
                /\ maybeTimePoint'[<<r, m>>] = NoTimePoint]_vars

\* C18, amended: a scan that finds no record at all with the message's
\* address and amount goes on to submit an initiating call; an executed
\* record is a match, and a scan whose matches are all executed ends the call
\* of redeemTx with one of their keys and without a submission.
C18_InitiatesWithoutMatch ==
  [][/\ SubmitsWhatScanChose
     /\ \A r \in live', m \in Msgs :
          LET L    == msTxAsMulti[r]
              hits == { k \in DOMAIN L :
                          /\ L[k].DestAddress = destAddress(m)
                          /\ L[k].DestAmount = actualAmount(m) }
          IN  (tpc[<<r, m>>] = "scan" /\ tpc'[<<r, m>>] # "scan") =>
                /\ hits = {} =>
                     /\ tpc'[<<r, m>>] = "submit"
                     /\ maybeTimePoint'[<<r, m>>] = NoTimePoint
                /\ (hits # {} /\ \A k \in hits : L[k].Executed) =>
                     /\ tpc'[<<r, m>>] = "sleep"
                     /\ isFinished'[<<r, m>>]
                     /\ currentTx'[<<r, m>>] \in hits]_vars

\* A task that submitted an initiating call when no record matched, and
\* later ended on the record once it was there and executed.
C18_Witness ==
  \E r \in live, m \in Msgs :
    /\ sent[<<r, m>>] = << NoTimePoint >>
    /\ tpc[<<r, m>>] = "del"
    /\ currentTx[<<r, m>>] \in DOMAIN msTxAsMulti[r]
    /\ msTxAsMulti[r][currentTx[<<r, m>>]].Executed

\* C19: when a Submitter reads the ledger in the round of finalized height h
\* (the height at which it passed the turn test), the Follower has applied
\* the updates of every block below h: no block from the first it has not
\* applied in full (its cursor, or the next one when it stands before
\* StoreBlock) up to h - 1 holds an extrinsic.
C19_LedgerCurrentAtRead ==
  [][\A r \in live', m \in Msgs :
       (tpc[<<r, m>>] = "scan" /\ tpc'[<<r, m>>] # "scan") =>
         \A b \in (IF fpc[r] = "store" THEN currentBlock[r] + 1
                                      ELSE currentBlock[r])
                     .. (roundHeight[<<r, m>>] - 1) :
           BlockAt(b) = << >>]_vars

\* C20: a task that ended because isFinish reported its record executed
\* (redeemTx returned the record's key) has left no record under that key.
C20_ExecutedRecordRemoved ==
  \A r \in live, m \in Msgs :
    (tpc[<<r, m>>] = "done" /\ currentTx[<<r, m>>] # NotExecuted) =>
      currentTx[<<r, m>>] \notin DOMAIN msTxAsMulti[r]


\* C21: a key leaves the ledger of a running process only in a Submitter's
\* delete, for the key that task got from isFinish, and the record under it
\* is executed; no step of the Follower removes a key.
C21_OnlyExecutedDeleted ==
  [][\A r \in live' :
       \A k \in (DOMAIN msTxAsMulti[r]) \ (DOMAIN msTxAsMulti'[r]) :
         /\ msTxAsMulti[r][k].Executed
         /\ k \in wasExecuted[r]
         /\ \E m \in Msgs :
              /\ tpc[<<r, m>>] = "del"
              /\ currentTx[<<r, m>>] = k
              /\ tpc'[<<r, m>>] = "done"
         /\ fpc'[r] = fpc[r]
         /\ currentBlock'[r] = currentBlock[r]
         /\ resp'[r] = resp[r]]_vars

\* A task has deleted the record it found executed.
C21_Witness ==
  \E r \in live, m \in Msgs :
    /\ tpc[<<r, m>>] = "done"
    /\ currentTx[<<r, m>>] \in wasExecuted[r]
    /\ currentTx[<<r, m>>] \notin DOMAIN msTxAsMulti[r]


\* C22: the scan's outcome is isFinish's verdict on a matching record: an
\* executed record ends the call with the record's key; an un-executed one
\* with a list in Others that lacks the relayer's account ends it with
\* NotExecuted; in both cases the task submits nothing and ends.  Only a
\* record all of whose lists hold the relayer's account lets the task go on,
\* to an approval at the record's timepoint.
C22_IsFinishVerdict ==
  [][/\ SubmitsWhatScanChose
     /\ \A r \in live', m \in Msgs :
          LET t    == << r, m >>
              L    == msTxAsMulti[r]
              hits == { k \in DOMAIN L :
                          /\ L[k].DestAddress = destAddress(m)
                          /\ L[k].DestAmount = actualAmount(m) }
              Lists(k)  == { L[k].Others[j] : j \in 1 .. Len(L[k].Others) }
              Holds(s)  == r \in { s[q] : q \in 1 .. Len(s) }
              Voted(k)  == \E s \in Lists(k) : ~Holds(s)
          IN  (tpc[t] = "scan" /\ tpc'[t] # "scan" /\ hits # {}) =>
                \E k \in hits :
                  \/ /\ L[k].Executed
                     /\ isFinished'[t]
                     /\ currentTx'[t] = L[k].OriginMsTx
                     /\ tpc'[t] = "sleep"
                  \/ /\ ~L[k].Executed /\ Voted(k)
                     /\ isFinished'[t]
                     /\ currentTx'[t] = NotExecuted
                     /\ tpc'[t] = "sleep"
                  \/ /\ ~L[k].Executed /\ ~Voted(k)
                     /\ ~isFinished'[t]
                     /\ currentTx'[t] = currentTx[t]
                     /\ tpc'[t] = "submit"
                     /\ maybeTimePoint'[t] = L[k].OriginMsTx]_vars

\* A task ended at its first scan, without a submission, on an un-executed
\* record that one of the relayer's own extrinsics had voted on.
C22_Witness ==
  \E r \in live, m \in Msgs :
    /\ tpc[<<r, m>>] = "done"
    /\ isFinished[<<r, m>>]
    /\ currentTx[<<r, m>>] = NotExecuted
    /\ sent[<<r, m>>] = << >>
    /\ retryTime[<<r, m>>] = RetryLimit
    /\ \E k \in DOMAIN msTxAsMulti[r] :
         /\ ~msTxAsMulti[r][k].Executed
         /\ msTxAsMulti[r][k].DestAddress = destAddress(m)
         /\ \E j \in 1 .. Len(msTxAsMulti[r][k].Others) :
              msTxAsMulti[r][k].Others[j] = otherSignatories(r)


\* C23: an AsMultiApprove appends its OtherSignatories to Others of every
\* un-executed record with its address and amount, an AsMultiExecuted does
\* so too and marks those records executed; every other record and the set
\* of keys stay as they were.
C23_ApproveExecuteFrame ==
  [][(rpBlocks # << >> /\ Head(rpBlocks) # << >> /\ rpBlocks' # rpBlocks
        /\ Head(Head(rpBlocks)).Type \in {"AsMultiApprove", "AsMultiExecuted"}) =>
       LET e == Head(Head(rpBlocks))
           Hit(ms) == /\ ~ms.Executed
                      /\ ms.DestAddress = e.DestAddress
                      /\ ms.DestAmount = e.DestAmount
           After(ms) ==
             [Executed    |-> (e.Type = "AsMultiExecuted"),
              DestAddress |-> ms.DestAddress,
              DestAmount  |-> ms.DestAmount,
              Others      |-> ms.Others \o << e.OtherSignatories >>,
              OriginMsTx  |-> ms.OriginMsTx]
       IN  /\ DOMAIN rpA' = DOMAIN rpA
           /\ \A k \in DOMAIN rpA :
                rpA'[k] = IF Hit(rpA[k]) THEN After(rpA[k]) ELSE rpA[k]]_vars

\* An executed record that was voted on, next to an older record of the
\* other call that no vote and no execution touched.
C23_Witness ==
  \E k1, k2 \in DOMAIN rpA :
    /\ rpA[k1].Executed
    /\ Len(rpA[k1].Others) >= 2
    /\ k2.BlockNumber < k1.BlockNumber
    /\ rpA[k2].DestAddress # rpA[k1].DestAddress
    /\ ~rpA[k2].Executed
    /\ Len(rpA[k2].Others) = 1


\* C24: whatever happens on one extrinsic, the extrinsics after it in the
\* block are still dispatched: a step of processBlock's loop takes exactly
\* the first extrinsic off those that remain.
C24_RemainingExtrinsicsProcessed ==
  [][\A r \in live :
       (fpc[r] = "mutate" /\ resp'[r] # resp[r]) =>
         resp'[r] = Tail(resp[r])]_vars

====
